---------------------------- MODULE Spec2Model ----------------------------
(***************************************************************************)
(* Model of the account health / risk classification and intervention      *)
(* queue of src/app.py (the Streamlit dashboard "RevOps Command Center").  *)
(*                                                                         *)
(* A script run is generate_enterprise_data (cached by st.cache_data)      *)
(* followed by main.  Streamlit reruns the script on every widget change;  *)
(* the cached portfolio df is reused until "Sync Warehouse" clears the     *)
(* cache.                                                                  *)
(*                                                                         *)
(* Representation choices:                                                 *)
(*   - ARR is kept in whole dollars (the code rounds to cents).            *)
(*   - Renewal_Date is kept as its offset in days from the current_date    *)
(*     of the generation run, i.e. days_to_renewal.                        *)
(*   - strings that are searched are sequences of one-character strings.   *)
(*   - an f-string is the tuple of its literal pieces and formatted values.*)
(*   - Previous_ARR and employees are not read by any modelled code and    *)
(*     are left out of the rows.                                           *)
(***************************************************************************)
EXTENDS Integers, Sequences, FiniteSets, TLC

VARIABLES
    pc,             \* "generating" | "ready" | "error": position of the script run
                    \* ("call" | "return" for a function evaluated in isolation)
    df,             \* the portfolio built by generate_enterprise_data
    tier_filter,    \* value of the "Filter by Tier" multiselect
    risk_filter,    \* value of the "Filter by Risk Status" multiselect
    search,         \* value of the "Find Specific Account" text input
    tier_options,   \* options the tier multiselect was last rendered with
    risk_options,   \* options the risk multiselect was last rendered with
    filtered_df,    \* df[mask]
    action_df,      \* the intervention queue
    applied,        \* indices get_strategic_playbook / get_rationale were applied to
    args,           \* inputs of a function evaluated in isolation
    result          \* its result

vars == <<pc, df, tier_filter, risk_filter, search, tier_options, risk_options,
          filtered_df, action_df, applied, args, result>>

-----------------------------------------------------------------------------
(* Bounds of the model *)

\* rows of the generated portfolio (the code calls generate_enterprise_data(200))
MaxRows == 3

\* how far beyond the generator's ranges the isolated evaluations go
ProbeMargin == 20

-----------------------------------------------------------------------------
(* Constants of the program *)

LoginDaysHigh == 150        \* np.random.randint(0, 150): 0..149
NpsHigh == 11               \* np.random.randint(0, 11): 0..10
TicketsHigh == 15           \* np.random.randint(0, 15): 0..14
RenewalLow == -15           \* np.random.randint(-15, 365): -15..364
RenewalHigh == 365
RenewalCutoff == 90         \* days_to_renewal < 90
CriticalHealth == 50        \* health_score < 50
WarningHealth == 70         \* health_score < 70
DriftDays == 90             \* Days_Since_Last_Touch > 90
HighValueARR == 250000      \* row['ARR'] > 250000

Tier1 == "Tier 1: Strategic"
Tier2 == "Tier 2: Growth"
Tier3 == "Tier 3: SMB"
tiers == {Tier1, Tier2, Tier3}

industries == {"FinTech", "Healthcare", "E-commerce", "Manufacturing", "SaaS", "Logistics"}

Statuses == {"Healthy", "At Risk", "Critical"}

\* default=["Critical", "At Risk"] of the risk multiselect
RiskFilterDefault == {"Critical", "At Risk"}

-----------------------------------------------------------------------------
(* generate_enterprise_data: one row *)

Max(a, b) == IF a >= b THEN a ELSE b

\* ARR range of a tier, in dollars: np.random.uniform(lo, hi)
ArrInTier(tier, arr) ==
    IF tier = Tier1 THEN arr >= 200000 /\ arr <= 1500000
    ELSE IF tier = Tier2 THEN arr >= 50000 /\ arr <= 199000
    ELSE arr >= 10000 /\ arr <= 49000

\* health_score = int(score_engagement*0.4 + score_nps*0.3 + score_support*0.3)
\* with score_engagement = max(100 - last_login_days*0.5, 0) kept in tenths.
\* The sum is kept in thousandths; int() truncates, and the sum is never
\* negative.  On the generator's whole domain the IEEE-754 double result of
\* the Python expression equals this exact value.
HealthScoreWeightBug(last_login_days, nps_score, open_tickets) ==
    LET score_engagement10 == Max(1000 - (last_login_days * 5), 0)
        score_nps == nps_score * 10
        score_support == Max(100 - (open_tickets * 5), 0)
    IN  ((score_engagement10 * 40) + (score_nps * 400) + (score_support * 300)) \div 1000

HealthScore(last_login_days, nps_score, open_tickets) ==
    LET score_engagement10 == Max(1000 - (last_login_days * 5), 0)
        score_nps == nps_score * 10
        score_support == Max(100 - (open_tickets * 5), 0)
    IN  ((score_engagement10 * 40) + (score_nps * 300) + (score_support * 300)) \div 1000

\* risk_status = "Healthy"; if ... "Critical"; elif ... "At Risk"
RiskStatusOrBug(days_to_renewal, health_score) ==
    IF days_to_renewal < RenewalCutoff \/ health_score < CriticalHealth THEN "Critical"
    ELSE IF health_score < WarningHealth THEN "At Risk"
    ELSE "Healthy"

RiskStatus(days_to_renewal, health_score) ==
    IF days_to_renewal < RenewalCutoff /\ health_score < CriticalHealth THEN "Critical"
    ELSE IF health_score < WarningHealth THEN "At Risk"
    ELSE "Healthy"

\* what one iteration of the loop draws at random
DrawOk(d) ==
    /\ d.tier \in tiers
    /\ ArrInTier(d.tier, d.arr)
    /\ d.last_login_days \in 0..(LoginDaysHigh - 1)
    /\ d.nps_score \in 0..(NpsHigh - 1)
    /\ d.open_tickets \in 0..(TicketsHigh - 1)
    /\ d.days_to_renewal \in RenewalLow..(RenewalHigh - 1)
    /\ d.industry \in industries

\* data.append({...}); index is the row's position in the DataFrame
MakeRowNpsBug(d, index) ==
    LET health_score == HealthScore(d.last_login_days, d.nps_score, d.open_tickets)
        score_nps == d.nps_score * 10
    IN  [ index |-> index,
          Account_Name |-> d.name,
          Industry |-> d.industry,
          ARR |-> d.arr,
          Tier |-> d.tier,
          Renewal_Date |-> d.days_to_renewal,
          Days_Since_Last_Touch |-> d.last_login_days,
          Health_Score |-> health_score,
          NPS |-> d.nps_score,
          Open_Tickets |-> d.open_tickets,
          Risk_Status |-> RiskStatus(d.days_to_renewal, score_nps) ]

MakeRow(d, index) ==
    LET health_score == HealthScore(d.last_login_days, d.nps_score, d.open_tickets)
    IN  [ index |-> index,
          Account_Name |-> d.name,
          Industry |-> d.industry,
          ARR |-> d.arr,
          Tier |-> d.tier,
          Renewal_Date |-> d.days_to_renewal,
          Days_Since_Last_Touch |-> d.last_login_days,
          Health_Score |-> health_score,
          NPS |-> d.nps_score,
          Open_Tickets |-> d.open_tickets,
          Risk_Status |-> RiskStatus(d.days_to_renewal, health_score) ]

Draw(tier, arr, lld, nps, tickets, dtr, name, industry) ==
    [ tier |-> tier, arr |-> arr, last_login_days |-> lld, nps_score |-> nps,
      open_tickets |-> tickets, days_to_renewal |-> dtr, name |-> name,
      industry |-> industry ]

\* The draws the model enumerates:
\*   health 19, renewal 89, ARR 250001   Critical, high value
\*   health 19, renewal -15, ARR 250000  Critical, at the ARR cutoff
\*   health 40, renewal 90               At Risk, renewal not imminent (twice:
\*                                       the two differ in NPS, tickets, name
\*                                       and industry only)
\*   health 76, last touch 120           Healthy, drifting
\*   health 82, last touch 90            Healthy, at the drift cutoff
DrawSample ==
    { Draw(Tier1, 250001, 149, 0, 14, 89, <<"A", "b">>, "SaaS"),
      Draw(Tier1, 250000, 149, 0, 14, -15, <<"c">>, "FinTech"),
      Draw(Tier3, 30000, 149, 7, 14, 90, <<"c">>, "SaaS"),
      Draw(Tier3, 30000, 149, 0, 0, 90, <<"A", "b">>, "FinTech"),
      Draw(Tier1, 300500, 120, 10, 0, 200, <<"A", "b">>, "SaaS"),
      Draw(Tier3, 30000, 90, 10, 0, 200, <<"c">>, "SaaS") }

-----------------------------------------------------------------------------
(* main: filters *)

Range(s) == { s[i] : i \in 1..Len(s) }

RECURSIVE UniqueFrom(_, _)
UniqueFrom(s, acc) ==
    IF s = <<>> THEN acc
    ELSE UniqueFrom(Tail(s),
                    IF Head(s) \in Range(acc) THEN acc ELSE Append(acc, Head(s)))

\* df['Tier'].unique(), df['Risk_Status'].unique(): in order of first appearance
TierOptions(d) == UniqueFrom([i \in 1..Len(d) |-> d[i].Tier], <<>>)
RiskOptions(d) == UniqueFrom([i \in 1..Len(d) |-> d[i].Risk_Status], <<>>)

Lower(ch) ==
    CASE ch = "A" -> "a"
      [] ch = "B" -> "b"
      [] ch = "C" -> "c"
      [] OTHER -> ch

\* Series.str.contains(search, case=False) for a pattern of plain letters
Contains(name, pat) ==
    \E i \in 0..(Len(name) - Len(pat)) :
        \A j \in 1..Len(pat) : Lower(name[i + j]) = Lower(pat[j])

SearchSample == { <<>>, <<"a">> }

\* mask = Tier.isin(tier_filter) & Risk_Status.isin(risk_filter) [& contains(search)]
Mask(row, tf, rf, s) ==
    /\ row.Tier \in tf
    /\ row.Risk_Status \in rf
    /\ (s # <<>> => Contains(row.Account_Name, s))

-----------------------------------------------------------------------------
(* main: Strategic Intervention Plan *)

\* (Risk_Status != "Healthy") | (Days_Since_Last_Touch > 90)
NeedsInterventionGeBug(risk_status, days_since_last_touch) ==
    risk_status # "Healthy" \/ days_since_last_touch >= DriftDays

NeedsInterventionLtBug(risk_status, days_since_last_touch) ==
    risk_status # "Healthy" \/ days_since_last_touch < DriftDays

NeedsInterventionAndBug(risk_status, days_since_last_touch) ==
    risk_status # "Healthy" /\ days_since_last_touch > DriftDays

NeedsIntervention(risk_status, days_since_last_touch) ==
    risk_status # "Healthy" \/ days_since_last_touch > DriftDays

get_strategic_playbook_GeBug(row) ==
    IF row.Risk_Status = "Critical" /\ row.ARR >= HighValueARR
        THEN "1. Executive Sponsor Call (CEO)"
    ELSE IF row.Risk_Status = "Critical" THEN "2. Risk Mitigation Plan"
    ELSE IF row.Risk_Status = "At Risk" THEN "3. Strategy Session / QBR"
    ELSE "4. Value Realization Report"

get_strategic_playbook(row) ==
    IF row.Risk_Status = "Critical" /\ row.ARR > HighValueARR
        THEN "1. Executive Sponsor Call (CEO)"
    ELSE IF row.Risk_Status = "Critical" THEN "2. Risk Mitigation Plan"
    ELSE IF row.Risk_Status = "At Risk" THEN "3. Strategy Session / QBR"
    ELSE "4. Value Realization Report"

\* f"{x:.0f}" of n/d: round half to even
RoundHalfEven(n, d) ==
    LET q == n \div d
        r == n % d
    IN  IF 2 * r < d THEN q
        ELSE IF 2 * r > d THEN q + 1
        ELSE IF q % 2 = 0 THEN q ELSE q + 1

get_rationale_SwapBug(row) ==
    IF row.Risk_Status = "Critical" /\ row.ARR > HighValueARR
        THEN <<"High Value ($", RoundHalfEven(row.ARR, 1000), "k) + Critical Health">>
    ELSE IF row.Risk_Status = "Critical" THEN <<"Health Score Warning (<70)">>
    ELSE IF row.Risk_Status = "At Risk" THEN <<"Health Score Critical (<50)">>
    ELSE <<"Drifting: No Contact for ", row.Days_Since_Last_Touch, " Days">>

get_rationale_GeBug(row) ==
    IF row.Risk_Status = "Critical" /\ row.ARR >= HighValueARR
        THEN <<"High Value ($", RoundHalfEven(row.ARR, 1000), "k) + Critical Health">>
    ELSE IF row.Risk_Status = "Critical" THEN <<"Health Score Critical (<50)">>
    ELSE IF row.Risk_Status = "At Risk" THEN <<"Health Score Warning (<70)">>
    ELSE <<"Drifting: No Contact for ", row.Days_Since_Last_Touch, " Days">>

get_rationale(row) ==
    IF row.Risk_Status = "Critical" /\ row.ARR > HighValueARR
        THEN <<"High Value ($", RoundHalfEven(row.ARR, 1000), "k) + Critical Health">>
    ELSE IF row.Risk_Status = "Critical" THEN <<"Health Score Critical (<50)">>
    ELSE IF row.Risk_Status = "At Risk" THEN <<"Health Score Warning (<70)">>
    ELSE <<"Drifting: No Contact for ", row.Days_Since_Last_Touch, " Days">>

\* filtered_df = df[mask]
FilteredDf(d, tf, rf, s) == SelectSeq(d, LAMBDA row : Mask(row, tf, rf, s))

\* action_df = filtered_df[...].copy()
ActionRows(d, tf, rf, s) ==
    SelectSeq(FilteredDf(d, tf, rf, s), LAMBDA row :
        NeedsIntervention(row.Risk_Status, row.Days_Since_Last_Touch))

\* if not action_df.empty: add the Recommended_Playbook and Rationale columns
ActionDf(a) ==
    IF a # <<>>
        THEN [ i \in 1..Len(a) |->
                 a[i] @@ [ Recommended_Playbook |-> get_strategic_playbook(a[i]),
                           Rationale |-> get_rationale(a[i]) ] ]
        ELSE a

Applied(a) ==
    IF a # <<>>
        THEN [ playbook |-> { a[i].index : i \in 1..Len(a) },
               rationale |-> { a[i].index : i \in 1..Len(a) } ]
        ELSE [ playbook |-> {}, rationale |-> {} ]

\* the part of main below the filter widgets, as a function of their values
RunMain(d, tf, rf, s) ==
    /\ filtered_df' = FilteredDf(d, tf, rf, s)
    /\ action_df' = ActionDf(ActionRows(d, tf, rf, s))
    /\ applied' = Applied(ActionRows(d, tf, rf, s))

-----------------------------------------------------------------------------
(* The script as a state machine *)

Init ==
    /\ pc = "generating"
    /\ df = <<>>
    /\ tier_filter = {}
    /\ risk_filter = RiskFilterDefault
    /\ search = <<>>
    /\ tier_options = <<>>
    /\ risk_options = <<>>
    /\ filtered_df = <<>>
    /\ action_df = <<>>
    /\ applied = [ playbook |-> {}, rationale |-> {} ]
    /\ args = <<>>
    /\ result = <<>>

\* one iteration of "for _ in range(rows)"
GenerateRow ==
    /\ pc = "generating"
    /\ Len(df) < MaxRows
    /\ \E d \in DrawSample :
        /\ DrawOk(d)
        /\ df' = Append(df, MakeRow(d, Len(df)))
    /\ UNCHANGED <<pc, tier_filter, risk_filter, search, tier_options, risk_options,
                   filtered_df, action_df, applied, args, result>>

\* main on a freshly generated df.  A multiselect keeps its value only while
\* it is rendered with the same options; otherwise it takes its default.
\* st.multiselect raises when a default value is not among the options, and
\* nothing below line 162 is executed then.
RenderFresh ==
    /\ pc = "generating"
    /\ Len(df) = MaxRows
    /\ LET tf == IF TierOptions(df) = tier_options
                    THEN tier_filter ELSE Range(TierOptions(df))
           rf == IF RiskOptions(df) = risk_options
                    THEN risk_filter ELSE RiskFilterDefault
       IN  /\ tier_filter' = tf
           /\ tier_options' = TierOptions(df)
           /\ IF RiskFilterDefault \subseteq Range(RiskOptions(df))
                THEN /\ pc' = "ready"
                     /\ risk_filter' = rf
                     /\ risk_options' = RiskOptions(df)
                     /\ RunMain(df, tf, rf, search)
                ELSE /\ pc' = "error"
                     /\ risk_filter' = RiskFilterDefault
                     /\ risk_options' = <<>>
                     /\ filtered_df' = <<>>
                     /\ action_df' = <<>>
                     /\ applied' = [ playbook |-> {}, rationale |-> {} ]
    /\ UNCHANGED <<df, search, args, result>>

\* the user changes the tier multiselect; the script reruns on the cached df
SetTierFilter ==
    /\ pc = "ready"
    /\ \E tf \in SUBSET Range(tier_options) :
        /\ tf # tier_filter
        /\ tier_filter' = tf
        /\ RunMain(df, tf, risk_filter, search)
    /\ UNCHANGED <<pc, df, risk_filter, search, tier_options, risk_options, args, result>>

\* the user changes the risk multiselect; the script reruns on the cached df
SetRiskFilter ==
    /\ pc = "ready"
    /\ \E rf \in SUBSET Range(risk_options) :
        /\ rf # risk_filter
        /\ risk_filter' = rf
        /\ RunMain(df, tier_filter, rf, search)
    /\ UNCHANGED <<pc, df, tier_filter, search, tier_options, risk_options, args, result>>

\* the user edits the search box; the script reruns on the cached df
SetSearch ==
    /\ pc = "ready"
    /\ \E s \in SearchSample :
        /\ s # search
        /\ search' = s
        /\ RunMain(df, tier_filter, risk_filter, s)
    /\ UNCHANGED <<pc, df, tier_filter, risk_filter, tier_options, risk_options, args, result>>

\* "Sync Warehouse": st.cache_data.clear(); st.rerun()
SyncWarehouse ==
    /\ pc \in {"ready", "error"}
    /\ pc' = "generating"
    /\ df' = <<>>
    /\ filtered_df' = <<>>
    /\ action_df' = <<>>
    /\ applied' = [ playbook |-> {}, rationale |-> {} ]
    /\ UNCHANGED <<tier_filter, risk_filter, search, tier_options, risk_options,
                   args, result>>

Next ==
    \/ GenerateRow
    \/ RenderFresh
    \/ SetTierFilter
    \/ SetRiskFilter
    \/ SetSearch
    \/ SyncWarehouse

Spec == Init /\ [][Next]_vars


-----------------------------------------------------------------------------
(* Functions evaluated in isolation, on inputs beyond the generator's ranges *)

IdleMain ==
    /\ df = <<>>
    /\ tier_filter = {}
    /\ risk_filter = RiskFilterDefault
    /\ search = <<>>
    /\ tier_options = <<>>
    /\ risk_options = <<>>
    /\ filtered_df = <<>>
    /\ action_df = <<>>
    /\ applied = [ playbook |-> {}, rationale |-> {} ]

\* the risk rule of generate_enterprise_data on any health score and renewal
InitClassify ==
    /\ IdleMain
    /\ pc = "call"
    /\ args \in [ health_score : (0 - ProbeMargin)..(100 + ProbeMargin),
                  days_to_renewal : (RenewalLow - ProbeMargin)..(RenewalHigh + ProbeMargin) ]
    /\ result = <<>>

CallRiskStatus ==
    /\ pc = "call"
    /\ pc' = "return"
    /\ result' = <<RiskStatus(args.days_to_renewal, args.health_score)>>
    /\ UNCHANGED <<df, tier_filter, risk_filter, search, tier_options, risk_options,
                   filtered_df, action_df, applied, args>>

SpecClassify == InitClassify /\ [][CallRiskStatus]_vars

\* the health score on every value the generator can draw
InitHealth ==
    /\ IdleMain
    /\ pc = "call"
    /\ args \in [ last_login_days : 0..(LoginDaysHigh - 1),
                  nps_score : 0..(NpsHigh - 1),
                  open_tickets : 0..(TicketsHigh - 1) ]
    /\ result = <<>>

CallHealthScore ==
    /\ pc = "call"
    /\ pc' = "return"
    /\ result' = <<HealthScore(args.last_login_days, args.nps_score, args.open_tickets)>>
    /\ UNCHANGED <<df, tier_filter, risk_filter, search, tier_options, risk_options,
                   filtered_df, action_df, applied, args>>

SpecHealth == InitHealth /\ [][CallHealthScore]_vars

\* the intervention filter on one risk status and two values of
\* Days_Since_Last_Touch
InitFilter ==
    /\ IdleMain
    /\ pc = "call"
    /\ args \in [ risk_status : Statuses,
                  d : 0..(LoginDaysHigh - 1 + ProbeMargin),
                  d2 : 0..(LoginDaysHigh - 1 + ProbeMargin) ]
    /\ result = <<>>

CallNeedsIntervention ==
    /\ pc = "call"
    /\ pc' = "return"
    /\ result' = << NeedsIntervention(args.risk_status, args.d),
                    NeedsIntervention(args.risk_status, args.d2) >>
    /\ UNCHANGED <<df, tier_filter, risk_filter, search, tier_options, risk_options,
                   filtered_df, action_df, applied, args>>

SpecFilter == InitFilter /\ [][CallNeedsIntervention]_vars

-----------------------------------------------------------------------------
(* Properties *)

Rows(s) == { s[i] : i \in 1..Len(s) }

Queued(index) == \E q \in Rows(action_df) : q.index = index

\* C1: for every integer health score and renewal value, also outside the
\* generator's ranges, the risk status is the first match of: Critical when
\* renewal < 90 and health < 50; At Risk when health < 70; else Healthy.
C1_RiskStatusIsFirstMatch ==
    pc = "return" =>
        LET h == args.health_score
            r == args.days_to_renewal
            critical == r < 90 /\ h < 50
        IN  /\ result[1] \in {"Critical", "At Risk", "Healthy"}
            /\ (result[1] = "Critical") <=> critical
            /\ (result[1] = "At Risk") <=> (~critical /\ h < 70)
            /\ (result[1] = "Healthy") <=> (~critical /\ h >= 70)

\* a health score below 50 (here negative) with renewal 90 is At Risk
C1_Witness ==
    /\ pc = "return"
    /\ args.health_score < 0
    /\ args.days_to_renewal = 90
    /\ result = <<"At Risk">>

\* C2 as stated: the action of every queued account is the first match of the
\* four rules, with the labels "Executive Sponsor Escalation", "Risk
\* Mitigation Plan", "Strategy Session", "Value Realization Report".
C2_PlaybookSpecLabels ==
    pc = "ready" =>
        \A q \in Rows(action_df) :
            q.Recommended_Playbook =
                IF q.Risk_Status = "Critical" /\ q.ARR > 250000
                    THEN "Executive Sponsor Escalation"
                ELSE IF q.Risk_Status = "Critical" THEN "Risk Mitigation Plan"
                ELSE IF q.Risk_Status = "At Risk" THEN "Strategy Session"
                ELSE "Value Realization Report"

\* C2 amended: every queued account has exactly one action, the first match
\* of the four rules, and the actions are the strings the code returns.
C2_PlaybookIsFirstMatch ==
    pc = "ready" =>
        /\ \A q \in Rows(action_df) :
            /\ q.Recommended_Playbook =
                IF q.Risk_Status = "Critical" /\ q.ARR > 250000
                    THEN "1. Executive Sponsor Call (CEO)"
                ELSE IF q.Risk_Status = "Critical" THEN "2. Risk Mitigation Plan"
                ELSE IF q.Risk_Status = "At Risk" THEN "3. Strategy Session / QBR"
                ELSE "4. Value Realization Report"
            /\ q.index \in applied.playbook
        /\ \A i, j \in 1..Len(action_df) :
            action_df[i].index = action_df[j].index => i = j

\* a Critical account with ARR exactly 250000 gets the risk mitigation plan
C2_Witness ==
    /\ pc = "ready"
    /\ \E q \in Rows(action_df) :
        /\ q.Risk_Status = "Critical"
        /\ q.ARR = 250000
        /\ q.Recommended_Playbook = "2. Risk Mitigation Plan"
    /\ \E q \in Rows(action_df) :
        q.Recommended_Playbook = "1. Executive Sponsor Call (CEO)"

\* C3 as stated: every account of the portfolio that is not Healthy or was
\* not touched for more than 90 days is in the queue, whatever the filters;
\* a Healthy one among them with action "Value Realization Report".
C3_QueueIgnoresFilters ==
    pc = "ready" =>
        \A a \in Rows(df) :
            (a.Risk_Status # "Healthy" \/ a.Days_Since_Last_Touch > 90) =>
                \E q \in Rows(action_df) :
                    /\ q.index = a.index
                    /\ (a.Risk_Status = "Healthy" =>
                            q.Recommended_Playbook = "Value Realization Report")

\* C3 amended: every account that passes the tier filter, the risk-status
\* filter and the search box, and is not Healthy or was not touched for more
\* than 90 days, is in the queue; a Healthy one among them with action
\* "4. Value Realization Report".
C3_QueueHoldsFilteredQualifiers ==
    pc = "ready" =>
        \A a \in Rows(df) :
            ( /\ a.Tier \in tier_filter
              /\ a.Risk_Status \in risk_filter
              /\ (search = <<>> \/ Contains(a.Account_Name, search))
              /\ (a.Risk_Status # "Healthy" \/ a.Days_Since_Last_Touch > 90) ) =>
                \E q \in Rows(action_df) :
                    /\ q.index = a.index
                    /\ (a.Risk_Status = "Healthy" =>
                            q.Recommended_Playbook = "4. Value Realization Report")

\* with Healthy selected in the risk filter, a Healthy account not touched
\* for 120 days is queued
C3_Witness ==
    /\ pc = "ready"
    /\ "Healthy" \in risk_filter
    /\ \E q \in Rows(action_df) :
        /\ q.Risk_Status = "Healthy"
        /\ q.Days_Since_Last_Touch = 120
        /\ q.Recommended_Playbook = "4. Value Realization Report"

\* C4: a Healthy account touched within the last 90 days (90 included) is
\* never queued and neither function is applied to it; with an empty queue
\* neither function is applied at all.
C4_HealthyRecentNeverQueued ==
    pc = "ready" =>
        /\ \A a \in Rows(df) :
            (a.Risk_Status = "Healthy" /\ a.Days_Since_Last_Touch <= 90) =>
                /\ ~Queued(a.index)
                /\ a.index \notin applied.playbook
                /\ a.index \notin applied.rationale
        /\ (action_df = <<>> => (applied.playbook = {} /\ applied.rationale = {}))

\* a Healthy account at exactly 90 days passes the dashboard filters and is
\* left out of a non-empty queue
C4_Witness ==
    /\ pc = "ready"
    /\ action_df # <<>>
    /\ \E a \in Rows(filtered_df) :
        /\ a.Risk_Status = "Healthy"
        /\ a.Days_Since_Last_Touch = 90
        /\ ~Queued(a.index)

SameFourFields(a, b) ==
    /\ a.Health_Score = b.Health_Score
    /\ a.Renewal_Date = b.Renewal_Date
    /\ a.ARR = b.ARR
    /\ a.Days_Since_Last_Touch = b.Days_Since_Last_Touch

\* C5: two accounts that agree on health score, renewal days, ARR and days
\* since last touch have the same risk status and, when queued, the same
\* action and rationale, whatever their other fields; and an account queued
\* by two successive runs of main on the same portfolio gets the same action
\* and rationale in both.
C5_FourFieldsDecide ==
    [][ pc' = "ready" =>
          /\ \A a, b \in Rows(df') :
                SameFourFields(a, b) => a.Risk_Status = b.Risk_Status
          /\ \A p, q \in Rows(action_df') :
                SameFourFields(p, q) =>
                    /\ p.Recommended_Playbook = q.Recommended_Playbook
                    /\ p.Rationale = q.Rationale
          /\ (pc = "ready" /\ df' = df) =>
                \A p \in Rows(action_df), q \in Rows(action_df') :
                    p.index = q.index =>
                        /\ p.Risk_Status = q.Risk_Status
                        /\ p.Recommended_Playbook = q.Recommended_Playbook
                        /\ p.Rationale = q.Rationale ]_vars

\* two queued accounts agree on the four fields and differ in name, industry,
\* NPS and open tickets
C5_Witness ==
    /\ pc = "ready"
    /\ \E p, q \in Rows(action_df) :
        /\ SameFourFields(p, q)
        /\ p.Account_Name # q.Account_Name
        /\ p.Industry # q.Industry
        /\ p.NPS # q.NPS
        /\ p.Open_Tickets # q.Open_Tickets

\* C6: a queued account whose action is the value realization report is
\* Healthy and was not touched for more than 90 days, and the N of its
\* rationale is its Days_Since_Last_Touch, greater than 90.
C6_ValueRealizationIsDrift ==
    pc = "ready" =>
        \A q \in Rows(action_df) :
            q.Recommended_Playbook = "4. Value Realization Report" =>
                /\ q.Risk_Status = "Healthy"
                /\ q.Days_Since_Last_Touch > 90
                /\ q.Rationale =
                     <<"Drifting: No Contact for ", q.Days_Since_Last_Touch, " Days">>
                /\ q.Rationale[2] > 90

C6_Witness ==
    /\ pc = "ready"
    /\ \E q \in Rows(action_df) :
        /\ q.Recommended_Playbook = "4. Value Realization Report"
        /\ q.Rationale = <<"Drifting: No Contact for ", 120, " Days">>

\* C7: every health score the generator can produce is an integer in [0,100],
\* the truncation of 0.4*max(100 - 0.5*login, 0) + 0.3*(10*nps) +
\* 0.3*max(100 - 5*tickets, 0); in tenths, without the clamps (which never act
\* on the generator's ranges), that sum is 2*(200 - login) + 30*nps +
\* 3*(100 - 5*tickets).
C7_HealthScoreInRange ==
    pc = "return" =>
        LET tenths == 2 * (200 - args.last_login_days) + 30 * args.nps_score
                        + 3 * (100 - 5 * args.open_tickets)
        IN  /\ result[1] \in 0..100
            /\ 10 * result[1] <= tenths
            /\ tenths < 10 * (result[1] + 1)

\* the largest score the generator produces
C7_Witness ==
    /\ pc = "return"
    /\ args.last_login_days = 0
    /\ args.nps_score = 10
    /\ args.open_tickets = 0
    /\ result = <<100>>

\* C8: with the risk status fixed, an account that passes the intervention
\* filter at d days since last touch passes it at every d2 > d.
C8_FilterMonotone ==
    (pc = "return" /\ args.d < args.d2 /\ result[1]) => result[2]

\* a Healthy account passes at 91 days and at 92
C8_Witness ==
    /\ pc = "return"
    /\ args.risk_status = "Healthy"
    /\ args.d = 91
    /\ args.d2 = 92
    /\ result = <<TRUE, TRUE>>

\* the branch an action comes from, and the branch a rationale comes from
PlaybookBranch(action) ==
    CASE action = "1. Executive Sponsor Call (CEO)" -> 1
      [] action = "2. Risk Mitigation Plan" -> 2
      [] action = "3. Strategy Session / QBR" -> 3
      [] action = "4. Value Realization Report" -> 4
      [] OTHER -> 0

RationaleBranch(rationale) ==
    CASE rationale[1] = "High Value ($" -> 1
      [] rationale[1] = "Health Score Critical (<50)" -> 2
      [] rationale[1] = "Health Score Warning (<70)" -> 3
      [] rationale[1] = "Drifting: No Contact for " -> 4
      [] OTHER -> 0

\* C9: the action and the rationale of a queued account come from the same
\* branch of the two ladders.
C9_SameBranch ==
    pc = "ready" =>
        \A q \in Rows(action_df) :
            /\ PlaybookBranch(q.Recommended_Playbook) \in 1..4
            /\ PlaybookBranch(q.Recommended_Playbook) = RationaleBranch(q.Rationale)
            /\ q.index \in applied.playbook \cap applied.rationale

\* a queue with a value realization row and a Critical row at ARR exactly
\* 250000, each with the rationale of its branch
C9_Witness ==
    /\ pc = "ready"
    /\ \E q \in Rows(action_df) :
        /\ PlaybookBranch(q.Recommended_Playbook) = 4
        /\ RationaleBranch(q.Rationale) = 4
    /\ \E q \in Rows(action_df) :
        q.ARR = 250000 /\ RationaleBranch(q.Rationale) = 2

\* C10: a rationale that cites the critical threshold is attached to an
\* account with health < 50 and renewal < 90; one that cites the warning
\* threshold to an account with health < 70.
C10_RationaleThresholdTrue ==
    pc = "ready" =>
        \A q \in Rows(action_df) :
            /\ RationaleBranch(q.Rationale) \in {1, 2} =>
                (q.Health_Score < 50 /\ q.Renewal_Date < 90)
            /\ RationaleBranch(q.Rationale) = 3 => q.Health_Score < 70

\* a warning rationale on an account with health < 50 whose renewal is not
\* within 90 days, next to a critical one
C10_Witness ==
    /\ pc = "ready"
    /\ \E q \in Rows(action_df) :
        /\ RationaleBranch(q.Rationale) = 3
        /\ q.Health_Score < 50
        /\ q.Renewal_Date = 90
    /\ \E q \in Rows(action_df) : RationaleBranch(q.Rationale) = 2

=============================================================================
